---- MODULE Spec2Model ----
(***************************************************************************)
(* Model of the interactive control loop of DiscordNES (src/src/main.rs):  *)
(* the warm-up of the emulator, the gateway event loop of run(), the       *)
(* button layout built by components() and the responses it publishes.     *)
(*                                                                         *)
(* The emulator (fastnes) and the messaging platform (discord) are         *)
(* collaborators outside the source.  The emulator is the number of        *)
(* frames stepped so far, the byte of its memory that can_control_mario    *)
(* reads (any value after a frame or a reset), and the controller byte it  *)
(* samples on each frame.  The platform is the list of attachment ids on   *)
(* the displayed message and the next id it hands out.                     *)
(***************************************************************************)
EXTENDS Integers, Sequences, FiniteSets, TLC

(***************************************************************************)
(* Bounds of the model.                                                    *)
(***************************************************************************)
\* gateway events delivered to the loop in one run
MaxEvents == 3
\* iterations of one probe-polling loop that the counters follow exactly;
\* the loop itself runs on for as long as the probe reads false
MaxPoll == 2

(***************************************************************************)
(* Program constants.                                                      *)
(***************************************************************************)
\* can_control_mario: nes.read_internal(0x000e) == 8
Playable == 8
\* input.store(1 << 3): the start press of the warm-up
StartBit == 3
\* for _ in 0..60: the idle frames before and after the start press
IdleFrames == 60
\* for _ in 0..5: the iterations of the minimum phase of "next"
MinIters == 5

\* values of the probed memory byte the emulator may hold
PlayerStates == {0, Playable}

ToggleTokens == {"a", "b", "up", "down", "left", "right"}
UnknownTokens == {"99", "00"}
\* custom ids of the buttons of the layout, rows in order
CustomIds ==
    {"00", "up", "02", "03", "04",
     "left", "11", "right", "13", "a",
     "20", "down", "22", "b", "24",
     "next", "reset"}

VARIABLES
    pc,         \* position of run()
    input,      \* the AtomicU8 shared with the controller: ControlState
    byte,       \* the local `byte` of the loop body
    iter,       \* iterations done of the minimum loop of "next"
    polled,     \* iterations done of the current polling loop (up to MaxPoll)
    frames,     \* frames stepped by the emulator since construction
    captured,   \* frames handed to the GIF encoder in the current "next"
    odd,        \* whether the emulator has stepped an odd number of frames
    mem,        \* the byte read by can_control_mario
    inlog,      \* controller bytes sampled on the frames of the current
                \* operation, run-length encoded: <<value, count>>
    attachment, \* the local `attachment`: tracked attachment id (0: none yet)
    msgAtts,    \* platform: attachment ids on the displayed message
    nextId,     \* platform: next attachment id it assigns
    resp,       \* the response published last
    nresp,      \* number of responses published
    live,       \* id of the artifact attached by the last published
                \* artifact-bearing response
    result,     \* outcome of the last publish attempt
    nEvents,    \* gateway events delivered so far
    last,       \* token of the event being handled or handled last
    pre,        \* values at the moment that event was received
    start,      \* ControlState when the last macro (or the warm-up) ended
    toggles     \* tokens of the toggles received since, in arrival order

vars == <<pc, input, byte, iter, polled, frames, captured, odd, mem, inlog,
          attachment, msgAtts, nextId, resp, nresp, live, result,
          nEvents, last, pre, start, toggles>>

emu == <<frames, odd, mem, inlog>>
platform == <<msgAtts, nextId, resp, nresp, live, result>>
history == <<nEvents, last, pre, start, toggles>>

(***************************************************************************)
(* u8 arithmetic.                                                          *)
(***************************************************************************)
RECURSIVE Pow2(_)
Pow2(n) == IF n = 0 THEN 1 ELSE 2 * Pow2(n - 1)

RECURSIVE XorBits(_, _, _)
XorBits(a, b, n) ==
    IF n = 0 THEN 0
    ELSE (((a % 2) + (b % 2)) % 2) + 2 * XorBits(a \div 2, b \div 2, n - 1)

RECURSIVE AndBits(_, _, _)
AndBits(a, b, n) ==
    IF n = 0 THEN 0
    ELSE ((a % 2) * (b % 2)) + 2 * AndBits(a \div 2, b \div 2, n - 1)

Xor(a, b) == XorBits(a, b, 8)
And(a, b) == AndBits(a, b, 8)
Shl(a, n) == (a * Pow2(n)) % 256

(***************************************************************************)
(* components(): the button layout, a projection of the byte it is given.  *)
(***************************************************************************)
\* the buttons given Some(bit)
HasBit(id) == id \in {"up", "left", "right", "a", "down", "b"}

\* as ButtonBit, with the bits of A and B exchanged
ButtonBitSwapped(id) ==
    CASE id = "up" -> 4
      [] id = "left" -> 6
      [] id = "right" -> 7
      [] id = "a" -> 1
      [] id = "down" -> 5
      [] id = "b" -> 0

\* the `bit` argument of each such button(...) call
ButtonBit(id) ==
    CASE id = "up" -> 4
      [] id = "left" -> 6
      [] id = "right" -> 7
      [] id = "a" -> 0
      [] id = "down" -> 5
      [] id = "b" -> 1

\* the buttons given Some(label)
Labelled(id) ==
    id \in {"up", "left", "right", "a", "down", "b", "next", "reset"}

\* the closure `button`; in Rust & binds tighter than ==
button(in, id) ==
    [style |-> IF HasBit(id)
               THEN IF And(in, Shl(1, ButtonBit(id))) = 0
                    THEN "Primary"
                    ELSE "Success"
               ELSE "Secondary",
     disabled |-> ~Labelled(id)]

components(in) == [id \in CustomIds |-> button(in, id)]

\* as GifFile, tagged as a still image
GifFileAsPng == [name |-> "frames.gif", typ |-> "image/png"]

\* the File values built for the three artifacts
PngFile == [name |-> "frame.png", typ |-> "image/png"]
GifFile == [name |-> "frames.gif", typ |-> "image/gif"]

(***************************************************************************)
(* The platform: what a published message holds afterwards.                *)
(***************************************************************************)
\* IndexedOr(new, keep): the kept ids that are on the message stay, each new
\* file is uploaded under a fresh id
Attached(new, keep) ==
    SelectSeq(msgAtts, LAMBDA a : \E k \in 1..Len(keep) : keep[k] = a)
        \o [k \in 1..Len(new) |-> nextId + (k - 1)]

\* a successful publish of (layout, new files, kept ids)
Publish(kind, layout, new, keep) ==
    /\ msgAtts' = Attached(new, keep)
    /\ nextId' = nextId + Len(new)
    /\ resp' = [kind |-> kind, layout |-> layout, new |-> new,
                keep |-> keep, held |-> input]
    /\ nresp' = nresp + 1
    /\ live' = IF Len(new) > 0 THEN nextId + (Len(new) - 1) ELSE live

NoResp ==
    [kind |-> "none", layout |-> components(0), new |-> <<>>,
     keep |-> <<>>, held |-> 0]

(***************************************************************************)
(* The emulator.                                                           *)
(***************************************************************************)
can_control_mario == mem = Playable

\* the controller bytes sampled so far, with n more frames sampling v
Logged(log, v, n) ==
    IF Len(log) > 0 /\ log[Len(log)][1] = v
    THEN [log EXCEPT ![Len(log)] = <<v, log[Len(log)][2] + n>>]
    ELSE Append(log, <<v, n>>)

\* n calls of nes.next_frame() while the controller byte is v
StepFrames(v, n) ==
    /\ frames' = frames + n
    /\ odd' = (odd # (n % 2 = 1))
    /\ mem' \in PlayerStates
    /\ inlog' = Logged(inlog, v, n)

\* one call of nes.next_frame() in a polling loop; after MaxPoll iterations
\* the frame still happens and the counters stop following it
PollFrame ==
    IF polled < MaxPoll
    THEN StepFrames(input, 1)
    ELSE odd' = ~odd /\ mem' \in PlayerStates /\ UNCHANGED <<frames, inlog>>

\* a polling loop has done one more iteration
Polled == IF polled < MaxPoll THEN polled + 1 ELSE polled

(***************************************************************************)
(* run(), before the loop: the warm-up, the first display, the gateway.    *)
(***************************************************************************)
Init ==
    /\ pc = "boot_idle1"
    /\ input = 0
    /\ byte = 0
    /\ iter = 0
    /\ polled = 0
    /\ frames = 0
    /\ captured = 0
    /\ odd = FALSE
    /\ mem \in PlayerStates
    /\ inlog = <<>>
    /\ attachment = 0
    /\ msgAtts = <<>>
    /\ nextId = 1
    /\ resp = NoResp
    /\ nresp = 0
    /\ live = 0
    /\ result = "none"
    /\ nEvents = 0
    /\ last = "boot"
    /\ pre = [input |-> 0, frames |-> 0, attachment |-> 0, nresp |-> 0]
    /\ start = 0
    /\ toggles = <<>>

\* for _ in 0..60 { nes.next_frame(); }
BootIdle1 ==
    /\ pc = "boot_idle1"
    /\ StepFrames(input, IdleFrames)
    /\ pc' = "boot_start"
    /\ UNCHANGED <<input, byte, iter, polled, captured, attachment>>
    /\ UNCHANGED <<platform, history>>

\* as BootStart, without the release of the start press
BootStartHeld ==
    /\ pc = "boot_start"
    /\ StepFrames(Shl(1, StartBit), 1)
    /\ input' = Shl(1, StartBit)
    /\ pc' = "boot_idle2"
    /\ UNCHANGED <<byte, iter, polled, captured, attachment>>
    /\ UNCHANGED <<platform, history>>

\* input.store(1 << 3); nes.next_frame(); input.store(0)
BootStart ==
    /\ pc = "boot_start"
    /\ StepFrames(Shl(1, StartBit), 1)
    /\ input' = 0
    /\ pc' = "boot_idle2"
    /\ UNCHANGED <<byte, iter, polled, captured, attachment>>
    /\ UNCHANGED <<platform, history>>

\* for _ in 0..60 { nes.next_frame(); }
BootIdle2 ==
    /\ pc = "boot_idle2"
    /\ StepFrames(input, IdleFrames)
    /\ polled' = 0
    /\ pc' = "boot_poll"
    /\ UNCHANGED <<input, byte, iter, captured, attachment>>
    /\ UNCHANGED <<platform, history>>

\* while !can_control_mario(&nes) { nes.next_frame(); }
BootPoll ==
    /\ pc = "boot_poll"
    /\ ~can_control_mario
    /\ PollFrame
    /\ polled' = Polled
    /\ UNCHANGED <<pc, input, byte, iter, captured, attachment>>
    /\ UNCHANGED <<platform, history>>

\* let mut attachment = display(&client, &mut nes, 0, channel).await?;
BootDisplay(ok) ==
    /\ pc = "boot_poll"
    /\ can_control_mario
    /\ IF ok
       THEN /\ Publish("display", components(0), <<PngFile>>, <<>>)
            /\ attachment' = msgAtts'[1]
            /\ result' = "ok"
            /\ pc' = "connect"
       ELSE /\ result' = "send_err"
            /\ pc' = "failed"
            /\ UNCHANGED <<attachment, msgAtts, nextId, resp, nresp, live>>
    /\ UNCHANGED <<input, byte, iter, polled, captured>>
    /\ UNCHANGED <<emu, history>>

\* let mut gateway = Gateway::connect(&client).await?;
Connect(ok) ==
    /\ pc = "connect"
    /\ pc' = IF ok THEN "idle" ELSE "failed"
    /\ start' = input
    /\ toggles' = <<>>
    /\ UNCHANGED <<input, byte, iter, polled, captured, attachment>>
    /\ UNCHANGED <<emu, platform, nEvents, last, pre>>

(***************************************************************************)
(* The gateway loop: while let Some(event) = gateway.next().await.         *)
(***************************************************************************)
\* the shift amount the match gives a button token
TokenBit(tok) ==
    CASE tok = "a" -> 0
      [] tok = "b" -> 1
      [] tok = "up" -> 4
      [] tok = "down" -> 5
      [] tok = "left" -> 6
      [] tok = "right" -> 7

\* as Flipped, with the bit set instead of flipped
FlippedSet(b, tok) ==
    IF And(b, Shl(1, TokenBit(tok))) = 0 THEN b + Shl(1, TokenBit(tok)) ELSE b

\* byte ^= 1 << bit
Flipped(b, tok) == Xor(b, Shl(1, TokenBit(tok)))

\* as Receive, with the next event taken while the update of a toggle is
\* still awaited
ReceiveEarly(tok) ==
    /\ pc \in {"idle", "toggle_update"}
    /\ nEvents < MaxEvents
    /\ nEvents' = nEvents + 1
    /\ last' = tok
    /\ pre' = [input |-> input, frames |-> frames,
               attachment |-> attachment, nresp |-> nresp]

\* the loop takes the next event of the stream
Receive(tok) ==
    /\ pc = "idle"
    /\ nEvents < MaxEvents
    /\ nEvents' = nEvents + 1
    /\ last' = tok
    /\ pre' = [input |-> input, frames |-> frames,
               attachment |-> attachment, nresp |-> nresp]

\* as ReceiveToggle, with one frame stepped to apply the new input
ReceiveToggleSteps(tok) ==
    /\ Receive(tok)
    /\ byte' = Flipped(input, tok)
    /\ input' = byte'
    /\ toggles' = Append(toggles, tok)
    /\ frames' = frames + 1
    /\ odd' = ~odd
    /\ mem' \in PlayerStates
    /\ inlog' = << <<byte', 1>> >>
    /\ pc' = "toggle_update"
    /\ UNCHANGED <<iter, polled, captured, attachment, start>>
    /\ UNCHANGED platform

\* a button token: flip the bit of the loaded byte and store it
ReceiveToggle(tok) ==
    /\ Receive(tok)
    /\ byte' = Flipped(input, tok)
    /\ input' = byte'
    /\ toggles' = Append(toggles, tok)
    /\ inlog' = <<>>
    /\ pc' = "toggle_update"
    /\ UNCHANGED <<iter, polled, captured, frames, odd, mem, attachment, start>>
    /\ UNCHANGED platform

\* as ToggleUpdate, with a still image uploaded instead of the reference kept
ToggleUpdateUploads(ok) ==
    /\ pc = "toggle_update"
    /\ IF ok
       THEN /\ Publish("toggle", components(byte), <<PngFile>>, <<>>)
            /\ result' = "ok"
            /\ pc' = "idle"
       ELSE /\ result' = "update_err"
            /\ pc' = "failed"
            /\ UNCHANGED <<msgAtts, nextId, resp, nresp, live>>
    /\ UNCHANGED <<input, byte, iter, polled, captured, attachment>>
    /\ UNCHANGED <<emu, history>>

\* i.update(.. components(byte) .. IndexedOr(vec![], vec![attachment.into()])).await?
ToggleUpdate(ok) ==
    /\ pc = "toggle_update"
    /\ IF ok
       THEN /\ Publish("toggle", components(byte), <<>>, <<attachment>>)
            /\ result' = "ok"
            /\ pc' = "idle"
       ELSE /\ result' = "update_err"
            /\ pc' = "failed"
            /\ UNCHANGED <<msgAtts, nextId, resp, nresp, live>>
    /\ UNCHANGED <<input, byte, iter, polled, captured, attachment>>
    /\ UNCHANGED <<emu, history>>

\* as ReceiveNext, with "next" treated as one more button: bit 2 is flipped
\* and stored
ReceiveNextFlips ==
    /\ Receive("next")
    /\ byte' = Xor(input, Shl(1, 2))
    /\ input' = byte'
    /\ iter' = 0
    /\ polled' = 0
    /\ captured' = 0
    /\ inlog' = <<>>
    /\ pc' = "next_min_skip"
    /\ UNCHANGED <<frames, odd, mem, attachment, start, toggles>>
    /\ UNCHANGED platform

\* "next": byte is the loaded value, the encoder is created
ReceiveNext ==
    /\ Receive("next")
    /\ byte' = input
    /\ iter' = 0
    /\ polled' = 0
    /\ captured' = 0
    /\ inlog' = <<>>
    /\ pc' = "next_min_skip"
    /\ UNCHANGED <<input, frames, odd, mem, attachment, start, toggles>>
    /\ UNCHANGED platform

\* as NextMinSkip, without the frame stepped before the captured one
NextMinSkipNoStep ==
    /\ pc = "next_min_skip"
    /\ pc' = "next_min_encode"
    /\ UNCHANGED <<input, byte, iter, polled, captured, attachment>>
    /\ UNCHANGED <<emu, platform, history>>

\* for _ in 0..5: nes.next_frame()
NextMinSkip ==
    /\ pc = "next_min_skip"
    /\ StepFrames(input, 1)
    /\ pc' = "next_min_encode"
    /\ UNCHANGED <<input, byte, iter, polled, captured, attachment>>
    /\ UNCHANGED <<platform, history>>

\* for _ in 0..5: encode_frame(&mut gif, &mut nes)
NextMinEncode ==
    /\ pc = "next_min_encode"
    /\ StepFrames(input, 1)
    /\ captured' = captured + 1
    /\ iter' = iter + 1
    /\ pc' = IF iter' < MinIters THEN "next_min_skip" ELSE "next_poll"
    /\ UNCHANGED <<input, byte, polled, attachment>>
    /\ UNCHANGED <<platform, history>>

\* as NextPollSkip, with the loop body run whatever the probe reads
NextPollSkipAlways ==
    /\ pc = "next_poll"
    /\ PollFrame
    /\ pc' = "next_poll_encode"
    /\ UNCHANGED <<input, byte, iter, polled, captured, attachment>>
    /\ UNCHANGED <<platform, history>>

\* while !can_control_mario(&nes): nes.next_frame()
NextPollSkip ==
    /\ pc = "next_poll"
    /\ ~can_control_mario
    /\ PollFrame
    /\ pc' = "next_poll_encode"
    /\ UNCHANGED <<input, byte, iter, polled, captured, attachment>>
    /\ UNCHANGED <<platform, history>>

\* while !can_control_mario(&nes): encode_frame(&mut gif, &mut nes)
NextPollEncode ==
    /\ pc = "next_poll_encode"
    /\ PollFrame
    /\ captured' = IF polled < MaxPoll THEN captured + 1 ELSE captured
    /\ polled' = Polled
    /\ pc' = "next_poll"
    /\ UNCHANGED <<input, byte, iter, attachment>>
    /\ UNCHANGED <<platform, history>>

\* the outcomes of the two awaits of a macro's response
Outcomes == {"ok", "update_err", "get_err"}

\* as NextUpdate, without the assignment to `attachment`
NextUpdateUntracked(out) ==
    /\ pc = "next_poll"
    /\ can_control_mario
    /\ result' = out
    /\ IF out = "update_err"
       THEN UNCHANGED <<msgAtts, nextId, resp, nresp, live>>
       ELSE Publish("next", components(byte), <<GifFile>>, <<>>)
    /\ pc' = IF out = "ok" THEN "idle" ELSE "failed"
    /\ start' = input
    /\ toggles' = <<>>
    /\ UNCHANGED <<input, byte, iter, polled, captured, attachment>>
    /\ UNCHANGED <<emu, nEvents, last, pre>>

\* i.update(.. components(byte) .. IndexedOr(vec![CreateAttachment::new(img)], vec![]))
\*  .await?.get(&Webhook).await?; attachment = msg.attachments[0].id; continue
NextUpdate(out) ==
    /\ pc = "next_poll"
    /\ can_control_mario
    /\ result' = out
    /\ IF out = "update_err"
       THEN UNCHANGED <<msgAtts, nextId, resp, nresp, live>>
       ELSE Publish("next", components(byte), <<GifFile>>, <<>>)
    /\ attachment' = IF out = "ok" THEN msgAtts'[1] ELSE attachment
    /\ pc' = IF out = "ok" THEN "idle" ELSE "failed"
    /\ start' = input
    /\ toggles' = <<>>
    /\ UNCHANGED <<input, byte, iter, polled, captured>>
    /\ UNCHANGED <<emu, nEvents, last, pre>>

\* "reset": nes.reset(); input.store(0)
ReceiveReset ==
    /\ Receive("reset")
    /\ byte' = input
    /\ mem' \in PlayerStates
    /\ input' = 0
    /\ inlog' = <<>>
    /\ pc' = "reset_idle1"
    /\ UNCHANGED <<iter, polled, captured, frames, odd, attachment, start, toggles>>
    /\ UNCHANGED platform

\* for _ in 0..60 { nes.next_frame(); }
ResetIdle1 ==
    /\ pc = "reset_idle1"
    /\ StepFrames(input, IdleFrames)
    /\ pc' = "reset_start"
    /\ UNCHANGED <<input, byte, iter, polled, captured, attachment>>
    /\ UNCHANGED <<platform, history>>

\* as ResetStart, without the release of the start press
ResetStartHeld ==
    /\ pc = "reset_start"
    /\ StepFrames(Shl(1, StartBit), 1)
    /\ input' = Shl(1, StartBit)
    /\ pc' = "reset_idle2"
    /\ UNCHANGED <<byte, iter, polled, captured, attachment>>
    /\ UNCHANGED <<platform, history>>

\* input.store(1 << 3); nes.next_frame(); input.store(0)
ResetStart ==
    /\ pc = "reset_start"
    /\ StepFrames(Shl(1, StartBit), 1)
    /\ input' = 0
    /\ pc' = "reset_idle2"
    /\ UNCHANGED <<byte, iter, polled, captured, attachment>>
    /\ UNCHANGED <<platform, history>>

\* for _ in 0..60 { nes.next_frame(); }
ResetIdle2 ==
    /\ pc = "reset_idle2"
    /\ StepFrames(input, IdleFrames)
    /\ polled' = 0
    /\ pc' = "reset_poll"
    /\ UNCHANGED <<input, byte, iter, captured, attachment>>
    /\ UNCHANGED <<platform, history>>

\* while !can_control_mario(&nes) { nes.next_frame(); }
ResetPoll ==
    /\ pc = "reset_poll"
    /\ ~can_control_mario
    /\ PollFrame
    /\ polled' = Polled
    /\ UNCHANGED <<pc, input, byte, iter, captured, attachment>>
    /\ UNCHANGED <<platform, history>>

\* as_png(..); i.update(.. components(byte) ..
\*  IndexedOr(vec![CreateAttachment::new(img)], vec![])).await?.get(&Webhook).await?;
\* attachment = msg.attachments[0].id; continue
ResetUpdate(out) ==
    /\ pc = "reset_poll"
    /\ can_control_mario
    /\ result' = out
    /\ IF out = "update_err"
       THEN UNCHANGED <<msgAtts, nextId, resp, nresp, live>>
       ELSE Publish("reset", components(byte), <<PngFile>>, <<>>)
    /\ attachment' = IF out = "ok" THEN msgAtts'[1] ELSE attachment
    /\ pc' = IF out = "ok" THEN "idle" ELSE "failed"
    /\ start' = input
    /\ toggles' = <<>>
    /\ UNCHANGED <<input, byte, iter, polled, captured>>
    /\ UNCHANGED <<emu, nEvents, last, pre>>

\* as ReceiveUnknown, with the default arm giving a shift amount (2) instead
\* of leaving the iteration: the byte is flipped and stored
ReceiveUnknownFlips(tok) ==
    /\ Receive(tok)
    /\ byte' = Xor(input, Shl(1, 2))
    /\ input' = byte'
    /\ inlog' = <<>>
    /\ UNCHANGED <<pc, iter, polled, captured, frames, odd, mem, attachment>>
    /\ UNCHANGED <<platform, start, toggles>>

\* a component interaction with any other token: _ => continue
ReceiveUnknown(tok) ==
    /\ Receive(tok)
    /\ byte' = input
    /\ inlog' = <<>>
    /\ UNCHANGED <<pc, input, iter, polled, captured, frames, odd, mem, attachment>>
    /\ UNCHANGED <<platform, start, toggles>>

\* a gateway event that is no component interaction: _ => {}
ReceiveOther ==
    /\ Receive("gateway")
    /\ inlog' = <<>>
    /\ UNCHANGED <<pc, input, byte, iter, polled, captured, frames, odd, mem>>
    /\ UNCHANGED <<attachment, platform, start, toggles>>

\* the stream ends: gateway.close().await; Ok(())
Disconnect ==
    /\ pc = "idle"
    /\ pc' = "closed"
    /\ UNCHANGED <<input, byte, iter, polled, captured, attachment>>
    /\ UNCHANGED <<emu, platform, history>>

Next ==
    \/ BootIdle1
    \/ BootStart
    \/ BootIdle2
    \/ BootPoll
    \/ \E ok \in BOOLEAN : BootDisplay(ok)
    \/ \E ok \in BOOLEAN : Connect(ok)
    \/ \E tok \in ToggleTokens : ReceiveToggle(tok)
    \/ \E ok \in BOOLEAN : ToggleUpdate(ok)
    \/ ReceiveNext
    \/ NextMinSkip
    \/ NextMinEncode
    \/ NextPollSkip
    \/ NextPollEncode
    \/ \E out \in Outcomes : NextUpdate(out)
    \/ ReceiveReset
    \/ ResetIdle1
    \/ ResetStart
    \/ ResetIdle2
    \/ ResetPoll
    \/ \E out \in Outcomes : ResetUpdate(out)
    \/ \E tok \in UnknownTokens : ReceiveUnknown(tok)
    \/ ReceiveOther
    \/ Disconnect

Spec == Init /\ [][Next]_vars

\* run() is sequential code: a step that can be taken is taken
FairSpec == Spec /\ WF_vars(Next)

TypeOK ==
    /\ input \in 0..255
    /\ byte \in 0..255
    /\ mem \in PlayerStates
    /\ polled \in 0..MaxPoll
    /\ iter \in 0..MinIters

(***************************************************************************)
(* Properties.                                                             *)
(***************************************************************************)
\* bit k of the byte x
Bit(x, k) == (x \div Pow2(k)) % 2

\* the bit the specification binds to each button
SpecBit(id) ==
    CASE id = "a" -> 0
      [] id = "b" -> 1
      [] id = "up" -> 4
      [] id = "down" -> 5
      [] id = "left" -> 6
      [] id = "right" -> 7

\* positions of run() inside the handling of a "next" event
NextPcs == {"next_min_skip", "next_min_encode", "next_poll", "next_poll_encode"}
\* positions of run() inside the handling of a "reset" event
ResetPcs == {"reset_idle1", "reset_start", "reset_idle2", "reset_poll"}
\* positions at which the handling of an event is over
DonePcs == {"idle", "closed", "failed"}

\* C1: in every response the loop publishes for a toggle, a "next" or a
\* "reset", each of a, b, up, down, left, right is styled Success exactly
\* when its bit is set in the ControlState held when the response is
\* published; a "reset" response shows every button inactive.
LayoutShowsControlState ==
    resp.kind \in {"toggle", "next", "reset"} =>
        /\ \A id \in ToggleTokens :
              (resp.layout[id].style = "Success") <=> (Bit(resp.held, SpecBit(id)) = 1)
        /\ resp.kind = "reset" =>
              \A id \in ToggleTokens : resp.layout[id].style # "Success"

\* the number of toggles of the sequence seq that flip bit k
RECURSIVE Flips(_, _)
Flips(seq, k) ==
    IF seq = <<>> THEN 0
    ELSE (IF SpecBit(Head(seq)) = k THEN 1 ELSE 0) + Flips(Tail(seq), k)

\* C2: after a sequence of button toggles with no macro event in between,
\* ControlState is the starting value with each event's bit (a=0, b=1, up=4,
\* down=5, left=6, right=7) XORed in: bit k differs from its starting value
\* exactly when an odd number of the events flipped it.
ToggleXorFold ==
    pc \in {"idle", "toggle_update"} =>
        \A k \in 0..7 : Bit(input, k) = (Bit(start, k) + Flips(toggles, k)) % 2

ToggleXorFoldWitness ==
    /\ pc = "idle"
    /\ Len(toggles) >= 2
    /\ toggles[1] # toggles[2]
    /\ input # start

\* C3: once a "reset" event has been processed, and before the loop accepts
\* the next event, ControlState is zero and the playable-state probe is true.
ResetLeavesZeroAndPlayable ==
    (pc = "idle" /\ last = "reset") => (input = 0 /\ can_control_mario)

ResetLeavesZeroAndPlayableWitness ==
    /\ pc = "idle"
    /\ last = "reset"
    /\ pre.input # 0
    /\ input = 0

\* C4: a "next" event never decreases the frame counter and always ends
\* after a bounded number of frames, also when the probe never becomes
\* true; so do the polling loops of Booting and Resetting.
MacrosTerminate ==
    /\ [](last = "next" => frames >= pre.frames)
    /\ (pc \in NextPcs) ~> (pc \in DonePcs)
    /\ (pc = "boot_poll") ~> (pc \in {"connect", "failed"})
    /\ (pc \in ResetPcs) ~> (pc \in DonePcs)

\* C5: a failure to publish the response of an event does not end the
\* loop: the session is Idle again and takes the next event.
PublishFailureKeepsLoop ==
    result \in {"update_err", "get_err"} => pc # "failed"

\* C6: every button-toggle response uploads no new artifact and keeps
\* exactly one attachment by reference, the one on the displayed message.
ToggleKeepsReference ==
    resp.kind = "toggle" =>
        /\ resp.new = <<>>
        /\ Len(resp.keep) = 1
        /\ msgAtts = resp.keep

ToggleKeepsReferenceWitness ==
    /\ resp.kind = "toggle"
    /\ pc = "idle"
    /\ nresp >= 3

\* C7: while the loop runs, the attachment id the session tracks, and so the
\* id a toggle response keeps, is the id of the artifact attached by the
\* most recent published artifact-bearing response, never an older one.
TrackedIsLatestArtifact ==
    /\ (nresp > 0 /\ pc # "failed") => attachment = live
    /\ resp.kind = "toggle" => resp.keep = <<live>>

TrackedIsLatestArtifactWitness ==
    /\ resp.kind = "toggle"
    /\ pc = "idle"
    /\ live > 1
    /\ attachment = live

\* C8: every "next" and every "reset" response attaches exactly one new
\* artifact and keeps none: image/gif for "next", image/png for "reset".
MacroAttachesOneNew ==
    /\ resp.kind \in {"next", "reset"} =>
          /\ Len(resp.new) = 1
          /\ resp.keep = <<>>
          /\ msgAtts = <<live>>
    /\ resp.kind = "next" => resp.new[1].typ = "image/gif"
    /\ resp.kind = "reset" => resp.new[1].typ = "image/png"

MacroAttachesOneNewWitness ==
    /\ resp.kind = "next"
    /\ live = 3
    /\ pc = "idle"

\* C9: an event with an unknown token, and a gateway event that is no
\* component interaction, change nothing: ControlState, the frame counter
\* and the tracked attachment id are as before, no response is published.
UnknownEventChangesNothing ==
    last \in UnknownTokens \cup {"gateway"} =>
        /\ pc \in {"idle", "closed"}
        /\ input = pre.input
        /\ frames = pre.frames
        /\ attachment = pre.attachment
        /\ nresp = pre.nresp

UnknownEventChangesNothingWitness ==
    /\ last = "99"
    /\ pc = "idle"
    /\ input # 0
    /\ live > 1

\* C10: a "next" event leaves ControlState as it was when the event was
\* received, and that value is the controller input sampled on every frame
\* stepped during the event.
NextKeepsControlState ==
    last = "next" =>
        /\ input = pre.input
        /\ \A k \in 1..Len(inlog) : inlog[k][1] = pre.input

NextKeepsControlStateWitness ==
    /\ last = "next"
    /\ pc = "idle"
    /\ pre.input # 0
    /\ Len(inlog) > 0
    /\ frames >= pre.frames + 2 * MinIters

\* C11: the animation of one "next" event holds n captured frames, n >= 5,
\* and the emulator is advanced by exactly 2n frames during the event (at
\* least 10): one uncaptured frame before each captured one, in the minimum
\* phase and in the polling phase.
NextStepsTwicePerCapture ==
    last = "next" =>
        /\ pc \in {"next_min_skip", "next_poll"} \cup DonePcs =>
              frames = pre.frames + 2 * captured
        /\ (pc \in {"next_min_encode", "next_poll_encode"} /\ polled < MaxPoll) =>
              frames = pre.frames + 2 * captured + 1
        /\ pc \in {"next_poll", "next_poll_encode"} \cup DonePcs =>
              captured >= 5
        /\ pc \in DonePcs => frames >= pre.frames + 10

NextStepsTwicePerCaptureWitness ==
    /\ last = "next"
    /\ pc = "idle"
    /\ captured = 6
    /\ frames = pre.frames + 12

\* C12: toggling the same button twice in a row, with no other event in
\* between, restores the ControlState held before the first toggle.
DoubleToggleRestores ==
    [][(pc = "idle" /\ pc' = "toggle_update" /\ last \in ToggleTokens /\ last' = last)
          => input' = pre.input]_vars

DoubleToggleRestoresWitness ==
    /\ pc = "idle"
    /\ nEvents = 3
    /\ Len(toggles) = 3
    /\ toggles[1] # toggles[2]
    /\ toggles[2] = toggles[3]
    /\ last = toggles[3]
    /\ input # 0

\* positions of run() inside the warm-up
BootPcs == {"boot_idle1", "boot_start", "boot_idle2", "boot_poll"}

\* C13: events are processed one at a time in arrival order: an event is
\* taken only when the loop is idle, and by then the response of the
\* known-token event before it has been published; while an event is
\* handled no other is taken; the emulator is stepped only by the one
\* operation in progress (the warm-up, or the "next" or "reset" being
\* handled).
EventsHandledOneAtATime ==
    [][/\ nEvents' # nEvents =>
            /\ pc = "idle"
            /\ nEvents' = nEvents + 1
            /\ last \in ToggleTokens \cup {"next", "reset"} =>
                  /\ nresp = pre.nresp + 1
                  /\ result = "ok"
                  /\ resp.kind = IF last \in ToggleTokens THEN "toggle" ELSE last
       /\ pc # "idle" => (nEvents' = nEvents /\ last' = last /\ pre' = pre)
       /\ odd' # odd =>
            \/ pc \in BootPcs /\ last = "boot"
            \/ pc \in NextPcs /\ last = "next"
            \/ pc \in ResetPcs /\ last = "reset"
      ]_vars

EventsHandledOneAtATimeWitness ==
    /\ pc = "reset_poll"
    /\ nEvents = 3
    /\ resp.kind = "next"
    /\ nresp = 3
    /\ pre.frames > 131

\* C14, as stated: during a "next" event, once the minimum number of frames
\* has been stepped, the emulator is never stepped past a frame on which
\* the probe reads true.
NextNeverStepsPastProbe ==
    [][(pc \in {"next_poll", "next_poll_encode"} /\ can_control_mario)
          => odd' = odd]_vars

\* C14, amended: once the minimum number of frames has been stepped, the
\* probe is read after each captured frame only; the emulator is not
\* stepped past a captured frame after which the probe reads true, and the
\* uncaptured frame of an iteration is always followed by its captured
\* frame, whatever the probe reads in between.
NextStopsAtProbedCapture ==
    [][/\ (pc = "next_poll" /\ can_control_mario) => odd' = odd
       /\ pc = "next_poll_encode" => (odd' # odd /\ pc' = "next_poll")
      ]_vars

NextStopsAtProbedCaptureWitness ==
    /\ last = "next"
    /\ pc = "next_poll"
    /\ can_control_mario
    /\ polled >= 1
    /\ captured > MinIters

\* the controller inputs of a warm-up whose positions are p1 (first idle
\* frames), p2 (start press), p3 (second idle frames) and p4 (polling):
\* 60 frames of 0, one frame of the start bit alone, 60 frames of 0, then
\* frames of 0 one at a time until the probe is true
WarmupInputs(p1, p2, p3, p4) ==
    /\ pc = p1 => (inlog = <<>> /\ input = 0)
    /\ pc = p2 => (inlog = << <<0, 60>> >> /\ input = 0)
    /\ pc = p3 => (inlog = << <<0, 60>>, <<8, 1>> >> /\ input = 0)
    /\ pc \notin {p1, p2, p3} =>
          (inlog = << <<0, 60>>, <<8, 1>>, <<0, 60 + polled>> >> /\ input = 0)
    /\ pc \notin {p1, p2, p3, p4} => can_control_mario

\* C15: Resetting feeds the emulator exactly the controller inputs of
\* Booting: with ControlState 0, 60 frames of input 0, one frame with only
\* the start bit (bit 3), 60 frames of input 0, then frames of input 0 one
\* at a time until the probe is true.
ResetRepeatsBooting ==
    /\ last = "boot" =>
          WarmupInputs("boot_idle1", "boot_start", "boot_idle2", "boot_poll")
    /\ last = "reset" =>
          WarmupInputs("reset_idle1", "reset_start", "reset_idle2", "reset_poll")

ResetRepeatsBootingWitness ==
    /\ last = "reset"
    /\ pc = "idle"
    /\ pre.input # 0
    /\ inlog = << <<0, 60>>, <<8, 1>>, <<0, 61>> >>

\* C16: a button-toggle event never steps the emulator: the frame counter
\* and the tracked attachment id are after it as before it; only "next"
\* and "reset" events, and Booting, advance the frame counter.
ToggleNeverSteps ==
    /\ last \in ToggleTokens =>
          /\ frames = pre.frames
          /\ attachment = pre.attachment
          /\ inlog = <<>>
    /\ frames # pre.frames => last \in {"boot", "next", "reset"}

ToggleNeverStepsWitness ==
    /\ last \in ToggleTokens
    /\ pc = "idle"
    /\ nEvents = 3
    /\ pre.frames > 2 * IdleFrames + 1 + 2 * MinIters
    /\ attachment = 3

\* C17: whenever the loop is waiting for the next event, the playable-state
\* probe is true.
IdleIsPlayable == pc = "idle" => mem = 8

IdleIsPlayableWitness ==
    /\ pc = "idle"
    /\ last \in ToggleTokens
    /\ resp.kind = "toggle"
    /\ live = 2
    /\ nEvents = 3
    /\ mem = 8

\* C18: whenever the loop is waiting for the next event, bits 2 and 3 of
\* ControlState are zero: no sequence of events leaves the start bit held.
IdleHoldsNoStart ==
    pc = "idle" => (Bit(input, 2) = 0 /\ Bit(input, 3) = 0)

IdleHoldsNoStartWitness ==
    /\ pc = "idle"
    /\ live = 2
    /\ Len(toggles) = 2
    /\ Bit(input, 4) = 1
    /\ Bit(input, 1) = 1

====
